---- MODULE Spec2Model ----
(***************************************************************************)
(* State-machine model of the point-cloud Viewer of src/src/index.ts:      *)
(* the Viewer's fields, the DOM elements it is bound to, the window's      *)
(* listeners, the host's pending frame callbacks, the point-cloud loads in *)
(* flight and the materials of the handles the external loader returned.   *)
(***************************************************************************)
EXTENDS Integers, Sequences, FiniteSets, TLC

\* ---------------------------------------------------------------- bounds
MaxElems == 3       \* DOM elements: the initial ones plus destroy's clones
MaxLoads == 2       \* calls of load
MaxTime  == 2       \* largest frame timestamp

\* ------------------------------------------------------- encoded absences
Undefined == 0      \* an unset element / handle field; the null target
NoTime    == -1     \* prevTime === undefined

\* ------------------------------------------------------------ the page
ShapeFirst  == <<"shape", "layers", "opacity", "size">>
OnlyOpacity == <<"opacity">>

\* The elements a caller can pass to initialize before any destroy: a target
\* in the document with all four controls, and a detached one (no parentNode)
\* that lacks the size input and the selects.
InitialDom ==
    [e \in 1..MaxElems |->
        CASE e = 1 -> [exists |-> TRUE,  hasParent |-> TRUE,  controls |-> ShapeFirst]
          [] e = 2 -> [exists |-> TRUE,  hasParent |-> FALSE, controls |-> OnlyOpacity]
          [] OTHER -> [exists |-> FALSE, hasParent |-> FALSE, controls |-> <<>>]]

InitialElems == Cardinality({e \in 1..MaxElems : InitialDom[e].exists})

Has(seq, x) == \E i \in 1..Len(seq) : seq[i] = x

IsSelect(c) == c \in {"layers", "shape"}

\* querySelector("select"): the first select of the target in document order
\* ("none" when the target has no select).
FirstSelect(seq) ==
    IF \E i \in 1..Len(seq) : IsSelect(seq[i])
    THEN seq[CHOOSE i \in 1..Len(seq) :
                 IsSelect(seq[i]) /\ \A j \in 1..(i-1) : ~IsSelect(seq[j])]
    ELSE "none"

\* ------------------------------------------------- values of the controls
Files        == {"cloud.js"}
LoadErrors   == {"network"}
ColorTypes   == {"RGB", "RGB_HEIGHT"}
NumberInputs == {"0.5", "", "abc"}
LayerLabels  == {"1", "2", "3"}
ShapeLabels  == {"Square", "Circle", "Paraboloid", "Hexagon"}

ValuesOf(c) ==
    CASE c = "opacity" -> NumberInputs
      [] c = "size"    -> NumberInputs
      [] c = "layers"  -> LayerLabels
      [] c = "shape"   -> ShapeLabels

\* The characters of the strings the model feeds to the handlers.
Chars(s) ==
    CASE s = "0.5"  -> <<"0", ".", "5">>
      [] s = ""     -> <<>>
      [] s = "abc"  -> <<"a", "b", "c">>
      [] s = "1"    -> <<"1">>
      [] s = "2"    -> <<"2">>
      [] s = "3"    -> <<"3">>
      [] OTHER      -> <<"x">>

Digits == {"0", "1", "2", "3", "4", "5", "6", "7", "8", "9"}

DigitVal(c) ==
    CASE c = "0" -> 0 [] c = "1" -> 1 [] c = "2" -> 2 [] c = "3" -> 3
      [] c = "4" -> 4 [] c = "5" -> 5 [] c = "6" -> 6 [] c = "7" -> 7
      [] c = "8" -> 8 [] c = "9" -> 9

RECURSIVE DigitsValue(_)
DigitsValue(cs) ==
    IF cs = <<>> THEN 0
    ELSE 10 * DigitsValue(SubSeq(cs, 1, Len(cs) - 1)) + DigitVal(cs[Len(cs)])

RECURSIVE Pow10(_)
Pow10(k) == IF k = 0 THEN 1 ELSE 10 * Pow10(k - 1)

\* JavaScript values a material property can hold.
NaN == [t |-> "NaN", m |-> 0, e |-> 0, s |-> ""]
Num(m, e) == [t |-> "number", m |-> m, e |-> e, s |-> ""]   \* the number m / 10^e
Str(s) == [t |-> "string", m |-> 0, e |-> 0, s |-> s]

\* Number(value) of a string: the empty string is 0, an unsigned decimal
\* literal (digits with at most one point) is its value, anything else NaN.
JSNumber(s) ==
    LET cs   == Chars(s)
        dots == {i \in 1..Len(cs) : cs[i] = "."}
    IN  IF cs = <<>> THEN Num(0, 0)
        ELSE IF \E i \in 1..Len(cs) : cs[i] \notin Digits \cup {"."} THEN NaN
        ELSE IF Cardinality(dots) > 1 \/ Len(cs) = Cardinality(dots) THEN NaN
        ELSE IF dots = {} THEN Num(DigitsValue(cs), 0)
        ELSE LET d    == CHOOSE i \in dots : TRUE
                 int  == SubSeq(cs, 1, d - 1)
                 frac == SubSeq(cs, d + 1, Len(cs))
             IN  Num(DigitsValue(int) * Pow10(Len(frac)) + DigitsValue(frac), Len(frac))

IsNaN(n) == n.t = "NaN"

\* ----------------------------------------------------------------- state
VARIABLES
    targetEl,                 \* this.targetEl: an element, or Undefined
    orbitControls,            \* "default", "configured" or "undefined"
    pointClouds,              \* this.pointClouds: sequence of handles
    prevTime,                 \* this.prevTime, or NoTime
    reqAnimationFrameHandle,  \* this.reqAnimationFrameHandle, or Undefined
    scene,                    \* children of this.scene
    sizedFor,                 \* element whose box the camera/renderer were sized to
    material,                 \* material of each handle the loader returned
    loads,                    \* the calls of load and what became of them
    dom,                      \* the elements: existence, parentNode, controls
    nextEl,                   \* next element cloneNode creates
    canvasParent,             \* parent of renderer.domElement, or Undefined
    listeners,                \* listeners on the controls of each element
    winListeners,             \* listeners on window
    rafPending,               \* frame callbacks pending with the host
    rafNext,                  \* next handle requestAnimationFrame returns
    now,                      \* timestamp of the latest frame
    destroyed,                \* destroy has returned at least once
    targetAssignments,        \* times line 71 has run
    op                        \* the operation that ran last and its outcome

viewerVars == <<targetEl, orbitControls, pointClouds, prevTime,
                reqAnimationFrameHandle, scene, sizedFor, material>>
hostVars   == <<dom, nextEl, canvasParent, listeners, winListeners, rafPending,
                rafNext, now>>
vars == <<viewerVars, hostVars, loads, destroyed, targetAssignments, op>>

Op(name, outcome, line) ==
    [name |-> name, outcome |-> outcome, line |-> line,
     calls |-> <<>>, dt |-> 0, prev |-> NoTime]

NoLoad == [status |-> "none", file |-> "", lenAtCall |-> 0,
           settled |-> "", result |-> 0, error |-> "", loaderCalls |-> 0]

NoMaterial == [loaded |-> FALSE, pointColorType |-> "", shape |-> "",
               opacity |-> Num(0, 0), size |-> Num(0, 0)]

Init ==
    /\ targetEl = Undefined
    /\ orbitControls = "default"
    /\ pointClouds = <<>>
    /\ prevTime = NoTime
    /\ reqAnimationFrameHandle = Undefined
    /\ scene = {}
    /\ sizedFor = Undefined
    /\ material = [h \in 1..MaxLoads |-> NoMaterial]
    /\ loads = [i \in 1..MaxLoads |-> NoLoad]
    /\ dom = InitialDom
    /\ nextEl = InitialElems + 1
    /\ canvasParent = Undefined
    /\ listeners = [e \in 1..MaxElems |-> {}]
    /\ winListeners = {}
    /\ rafPending = {}
    /\ rafNext = 1
    /\ now = 0
    /\ destroyed = FALSE
    /\ targetAssignments = 0
    /\ op = Op("new", "returned", 0)

Elements == {e \in 1..MaxElems : dom[e].exists}

\* ------------------------------------------------------------ initialize
\* The two halves of the guard of line 67.
AlreadyInitializedIgnored(t) == FALSE

AlreadyInitialized(t) == t # Undefined

TargetAbsentIgnored(el) == FALSE

TargetAbsent(el) == el = Undefined

\* Lines 87-97: the four querySelector results, in the order of the code.
Queried(cs) ==
    << <<IF Has(cs, "opacity") THEN "opacity" ELSE "none", "changePointsOpacity">>,
       <<IF Has(cs, "size")    THEN "size"    ELSE "none", "changePointsSize">>,
       <<IF Has(cs, "layers")  THEN "layers"  ELSE "none", "changeLayer">>,
       <<FirstSelect(cs), "configPointsShape">> >>

\* How many addEventListener calls run before one hits a null element.
RegisteredCount(cs) ==
    LET q == Queried(cs)
    IN  IF \A i \in 1..4 : q[i][1] # "none" THEN 4
        ELSE (CHOOSE i \in 1..4 : q[i][1] = "none" /\ \A j \in 1..(i-1) : q[j][1] # "none") - 1

RegisteredBy(cs) == {Queried(cs)[i] : i \in 1..RegisteredCount(cs)}

\* Line at which initialize throws for a target with k of the controls found.
ListenerThrowLine(k) == 88 + 3 * k

Initialize(el) ==
    LET skip   == AlreadyInitialized(targetEl) \/ TargetAbsent(el)
        attach == ~skip /\ el # Undefined                \* line 72 has a node
        cfg    == attach /\ orbitControls # "undefined"  \* line 74 does not throw
        k      == IF cfg THEN RegisteredCount(dom[el].controls) ELSE 0
        full   == cfg /\ k = 4
    IN  /\ targetEl' = IF skip THEN targetEl ELSE el
        /\ targetAssignments' = IF skip THEN targetAssignments ELSE targetAssignments + 1
        /\ canvasParent' = IF attach THEN el ELSE canvasParent
        /\ orbitControls' = IF cfg THEN "configured" ELSE orbitControls
        /\ sizedFor' = IF cfg THEN el ELSE sizedFor
        /\ winListeners' = IF cfg THEN winListeners \cup {"resize"} ELSE winListeners
        /\ listeners' = IF cfg
                        THEN [listeners EXCEPT ![el] = @ \cup RegisteredBy(dom[el].controls)]
                        ELSE listeners
        /\ rafPending' = IF full THEN rafPending \cup {rafNext} ELSE rafPending
        /\ rafNext' = IF full THEN rafNext + 1 ELSE rafNext
        /\ op' = Op("initialize",
                    IF skip \/ full THEN "returned" ELSE "threw",
                    CASE skip    -> 68
                      [] ~attach -> 72
                      [] ~cfg    -> 74
                      [] ~full   -> ListenerThrowLine(k)
                      [] OTHER   -> 100)
        /\ UNCHANGED <<pointClouds, prevTime, reqAnimationFrameHandle, scene, material,
                       loads, dom, nextEl, now, destroyed>>

\* --------------------------------------------------------------- destroy
\* Line 112: window.removeEventListener("resize", this.resize).
RemoveOtherListener(ls) == ls

RemoveResizeListener(ls) == ls \ {"resize"}

\* Line 111: this.orbitControls = undefined.
ReleasedControlsReset == "default"

ReleasedControls == "undefined"

\* Lines 117-119: cancel the frame callback whose handle is stored.
CancelStored(pending, handle) ==
    IF handle # Undefined THEN pending \ {handle} ELSE pending

\* destroy with the cleanup of lines 115-119 moved ahead of the DOM calls.
DestroyCleansFirst ==
    IF targetEl = Undefined \/ canvasParent # targetEl
    THEN /\ pointClouds' = <<>>
         /\ rafPending' = CancelStored(rafPending, reqAnimationFrameHandle)
         /\ op' = Op("destroy", "threw", 106)
         /\ UNCHANGED <<targetEl, orbitControls, prevTime, reqAnimationFrameHandle, scene,
                        sizedFor, material, dom, nextEl, canvasParent, listeners,
                        winListeners, rafNext, now, loads, destroyed, targetAssignments>>
    ELSE IF ~dom[targetEl].hasParent
    THEN /\ pointClouds' = <<>>
         /\ rafPending' = CancelStored(rafPending, reqAnimationFrameHandle)
         /\ canvasParent' = Undefined
         /\ op' = Op("destroy", "threw", 109)
         /\ UNCHANGED <<targetEl, orbitControls, prevTime, reqAnimationFrameHandle, scene,
                        sizedFor, material, dom, nextEl, listeners, winListeners,
                        rafNext, now, loads, destroyed, targetAssignments>>
    ELSE /\ nextEl <= MaxElems
         /\ canvasParent' = Undefined
         /\ dom' = [dom EXCEPT ![nextEl] = [exists |-> TRUE, hasParent |-> TRUE,
                                            controls |-> dom[targetEl].controls],
                               ![targetEl].hasParent = FALSE]
         /\ nextEl' = nextEl + 1
         /\ targetEl' = Undefined
         /\ orbitControls' = ReleasedControls
         /\ winListeners' = RemoveResizeListener(winListeners)
         /\ pointClouds' = <<>>
         /\ rafPending' = CancelStored(rafPending, reqAnimationFrameHandle)
         /\ destroyed' = TRUE
         /\ op' = Op("destroy", "returned", 120)
         /\ UNCHANGED <<prevTime, reqAnimationFrameHandle, scene, sizedFor, material,
                        listeners, rafNext, now, loads, targetAssignments>>

Destroy ==
    IF targetEl = Undefined \/ canvasParent # targetEl
    THEN \* line 106: TypeError on undefined, or NotFoundError from removeChild
         /\ op' = Op("destroy", "threw", 106)
         /\ UNCHANGED <<viewerVars, hostVars, loads, destroyed, targetAssignments>>
    ELSE IF ~dom[targetEl].hasParent
    THEN \* line 109: parentNode is null
         /\ canvasParent' = Undefined
         /\ op' = Op("destroy", "threw", 109)
         /\ UNCHANGED <<viewerVars, dom, nextEl, listeners, winListeners, rafPending,
                        rafNext, now, loads, destroyed, targetAssignments>>
    ELSE /\ nextEl <= MaxElems
         /\ canvasParent' = Undefined
         /\ dom' = [dom EXCEPT ![nextEl] = [exists |-> TRUE, hasParent |-> TRUE,
                                            controls |-> dom[targetEl].controls],
                               ![targetEl].hasParent = FALSE]
         /\ nextEl' = nextEl + 1
         /\ targetEl' = Undefined
         /\ orbitControls' = ReleasedControls
         /\ winListeners' = RemoveResizeListener(winListeners)
         /\ pointClouds' = <<>>
         /\ rafPending' = CancelStored(rafPending, reqAnimationFrameHandle)
         /\ destroyed' = TRUE
         /\ op' = Op("destroy", "returned", 120)
         /\ UNCHANGED <<prevTime, reqAnimationFrameHandle, scene, sizedFor, material,
                        listeners, rafNext, now, loads, targetAssignments>>

\* ------------------------------------------------------------------ load
\* Line 155: the colour mode the continuation gives a handle that the loader
\* returned with colour mode c.
ContinuationColorTypeKept(c) == c

ContinuationColorType(c) == "RGB"

\* Lines 138-159: the value the continuation returns, which the promise load
\* returned resolves with (the arrow function has no return statement).
ContinuationResult(pco) == Undefined

\* Line 156: this.scene.add(pco).
SceneAddSkipped(children, pco) == children

SceneAdd(children, pco) == children \cup {pco}

\* Line 157: this.pointClouds.push(pco).
ListPushDeduplicated(list, pco) ==
    IF \E h \in 1..MaxLoads : Has(list, h) /\ loads[h].file = loads[pco].file
    THEN list ELSE Append(list, pco)

ListPushUnlessDestroyed(list, pco) == IF destroyed THEN list ELSE Append(list, pco)

ListPush(list, pco) == Append(list, pco)

\* The promise load returned has no rejection handler: the loader's
\* rejection is the promise's rejection.
RejectionSwallowed(l, err) == [l EXCEPT !.status = "settled", !.settled = "resolved",
                                        !.result = Undefined]

RejectionOutcome(l, err) == [l EXCEPT !.status = "settled", !.settled = "rejected",
                                      !.error = err]

Load(f) ==
    /\ \E i \in 1..MaxLoads :
          /\ loads[i].status = "none"
          /\ \A j \in 1..(i-1) : loads[j].status # "none"
          /\ loads' = [loads EXCEPT ![i] = [NoLoad EXCEPT !.status = "pending", !.file = f,
                                                   !.lenAtCall = Len(pointClouds),
                                                   !.loaderCalls = 1]]
          /\ op' = Op("load", "returned", 131)
    /\ UNCHANGED <<viewerVars, hostVars, destroyed, targetAssignments>>

\* The loader resolves call i with a new handle (named i) whose material has
\* the library's defaults and colour mode c; the continuation runs.
LoadResolve(i, c) ==
    /\ loads[i].status = "pending"
    /\ material' = [material EXCEPT ![i] =
                       [loaded |-> TRUE, pointColorType |-> ContinuationColorType(c),
                        shape |-> "SQUARE", opacity |-> Num(1, 0), size |-> Num(1, 0)]]
    /\ scene' = SceneAdd(scene, i)
    /\ pointClouds' = ListPush(pointClouds, i)
    /\ loads' = [loads EXCEPT ![i].status = "settled", ![i].settled = "resolved",
                              ![i].result = ContinuationResult(i)]
    /\ op' = Op("loadResolved", "returned", 159)
    /\ UNCHANGED <<targetEl, orbitControls, prevTime, reqAnimationFrameHandle, sizedFor,
                   hostVars, destroyed, targetAssignments>>

LoadRejectPushes(i, err) ==
    /\ loads[i].status = "pending"
    /\ loads' = [loads EXCEPT ![i] = RejectionOutcome(loads[i], err)]
    /\ pointClouds' = Append(pointClouds, i)
    /\ op' = Op("loadRejected", "returned", 131)
    /\ UNCHANGED <<targetEl, orbitControls, prevTime, reqAnimationFrameHandle, scene,
                   sizedFor, material, hostVars, destroyed, targetAssignments>>

LoadReject(i, err) ==
    /\ loads[i].status = "pending"
    /\ loads' = [loads EXCEPT ![i] = RejectionOutcome(loads[i], err)]
    /\ op' = Op("loadRejected", "returned", 131)
    /\ UNCHANGED <<viewerVars, hostVars, destroyed, targetAssignments>>

\* ------------------------------------------------------------------ loop
\* Lines 199-202, 168-177 and 182-185: what a frame after the first calls,
\* in order (update and render with the calls they make).
FrameCalls == <<"orbitControls.update",
                "update", "orbitControls.update", "potree.updatePointClouds",
                "render", "renderer.clear", "renderer.render">>

\* The host runs the pending frame callback h with timestamp t.
Frame(h, t) ==
    /\ h \in rafPending
    /\ t > now
    /\ now' = t
    /\ rafPending' = (rafPending \ {h}) \cup {rafNext}         \* line 191
    /\ rafNext' = rafNext + 1
    /\ reqAnimationFrameHandle' = rafNext
    /\ prevTime' = t                                           \* line 194
    /\ op' = [Op("loop",
                 IF prevTime # NoTime /\ orbitControls = "undefined"
                 THEN "threw" ELSE "returned",
                 CASE prevTime = NoTime           -> 196
                   [] orbitControls = "undefined" -> 199
                   [] OTHER                       -> 203)
              EXCEPT !.prev = prevTime,
                     !.calls = IF prevTime # NoTime /\ orbitControls # "undefined"
                               THEN <<"requestAnimationFrame">> \o FrameCalls
                               ELSE <<"requestAnimationFrame">>,
                     !.dt = IF prevTime # NoTime /\ orbitControls # "undefined"
                            THEN t - prevTime ELSE 0]
    /\ UNCHANGED <<targetEl, orbitControls, pointClouds, scene, sizedFor, material,
                   dom, nextEl, canvasParent, listeners, winListeners, loads,
                   destroyed, targetAssignments>>

\* ---------------------------------------------------------------- resize
\* The window fires "resize": the handler of lines 209-214 runs if registered.
WindowResize ==
    /\ sizedFor' = IF "resize" \in winListeners /\ targetEl # Undefined
                   THEN targetEl ELSE sizedFor
    /\ op' = Op("windowResize",
                CASE "resize" \notin winListeners -> "ignored"
                  [] targetEl = Undefined         -> "threw"
                  [] OTHER                        -> "returned",
                IF "resize" \in winListeners THEN 210 ELSE 0)
    /\ UNCHANGED <<targetEl, orbitControls, pointClouds, prevTime,
                   reqAnimationFrameHandle, scene, material, hostVars, loads,
                   destroyed, targetAssignments>>

\* ----------------------------------------------------------- UI handlers
InList(h) == \E i \in 1..Len(pointClouds) : pointClouds[i] = h

\* Lines 221-239.
configPointsShapeFallthrough(mat, value) ==
    CASE value \in {"Square", "Circle", "Paraboloid"}
                 -> [h \in DOMAIN mat |->
                       IF InList(h) THEN [mat[h] EXCEPT !.shape = "PARABOLOID"] ELSE mat[h]]
      [] OTHER   -> mat

configPointsShape(mat, value) ==
    CASE value = "Square"     -> [h \in DOMAIN mat |->
                                    IF InList(h) THEN [mat[h] EXCEPT !.shape = "SQUARE"] ELSE mat[h]]
      [] value = "Circle"     -> [h \in DOMAIN mat |->
                                    IF InList(h) THEN [mat[h] EXCEPT !.shape = "CIRCLE"] ELSE mat[h]]
      [] value = "Paraboloid" -> [h \in DOMAIN mat |->
                                    IF InList(h) THEN [mat[h] EXCEPT !.shape = "PARABOLOID"] ELSE mat[h]]
      [] OTHER                -> mat

\* Lines 247-263.
changeLayerWithDefault(mat, value) ==
    CASE value = "2" -> [h \in DOMAIN mat |->
                           IF InList(h) THEN [mat[h] EXCEPT !.pointColorType = "RGB_HEIGHT"] ELSE mat[h]]
      [] OTHER       -> [h \in DOMAIN mat |->
                           IF InList(h) THEN [mat[h] EXCEPT !.pointColorType = "RGB"] ELSE mat[h]]

changeLayer(mat, value) ==
    CASE value = "1" -> [h \in DOMAIN mat |->
                           IF InList(h) THEN [mat[h] EXCEPT !.pointColorType = "RGB"] ELSE mat[h]]
      [] value = "2" -> [h \in DOMAIN mat |->
                           IF InList(h) THEN [mat[h] EXCEPT !.pointColorType = "RGB_HEIGHT"] ELSE mat[h]]
      [] OTHER       -> mat

\* Lines 274 and 288: the test both numeric handlers apply to the input.
AcceptsNumber(value) == ~IsNaN(JSNumber(value)) /\ value # ""

\* Lines 275 and 289: what the handlers assign, the event target's value.
Assigned(value) == Str(value)

\* Lines 271-277.
changePointsOpacity(mat, value) ==
    IF AcceptsNumber(value)
    THEN [h \in DOMAIN mat |->
            IF InList(h) THEN [mat[h] EXCEPT !.opacity = Assigned(value)] ELSE mat[h]]
    ELSE mat

\* Lines 285-291.
changePointsSize(mat, value) ==
    IF AcceptsNumber(value)
    THEN [h \in DOMAIN mat |->
            IF InList(h) THEN [mat[h] EXCEPT !.size = Assigned(value)] ELSE mat[h]]
    ELSE mat

Handlers == {"changePointsOpacity", "changePointsSize", "changeLayer", "configPointsShape"}

RunHandler(name, mat, value) ==
    CASE name = "changePointsOpacity" -> changePointsOpacity(mat, value)
      [] name = "changePointsSize"    -> changePointsSize(mat, value)
      [] name = "changeLayer"         -> changeLayer(mat, value)
      [] name = "configPointsShape"   -> configPointsShape(mat, value)

\* The handlers registered on control c of element e, in the order initialize
\* registered them.
HandlersOn(e, c) ==
    LET q == Queried(dom[e].controls)
    IN  SelectSeq([i \in 1..4 |-> q[i][2]],
                  LAMBDA n : <<c, n>> \in listeners[e])

RECURSIVE RunAll(_, _, _)
RunAll(names, mat, value) ==
    IF names = <<>> THEN mat
    ELSE RunAll(Tail(names), RunHandler(Head(names), mat, value), value)

\* The user changes control c of element e, which is in the document: the
\* control fires its event ("input" or "change") with value v.
UIEvent(e, c, v) ==
    /\ e \in Elements
    /\ dom[e].hasParent
    /\ Has(dom[e].controls, c)
    /\ v \in ValuesOf(c)
    /\ material' = RunAll(HandlersOn(e, c), material, v)
    /\ op' = [Op("uiEvent", IF HandlersOn(e, c) = <<>> THEN "ignored" ELSE "returned", 0)
              EXCEPT !.calls = HandlersOn(e, c)]
    /\ UNCHANGED <<targetEl, orbitControls, pointClouds, prevTime,
                   reqAnimationFrameHandle, scene, sizedFor, hostVars, loads,
                   destroyed, targetAssignments>>

\* ----------------------------------------------------------- the systems
Controls == {"opacity", "size", "layers", "shape"}
AllValues == NumberInputs \cup LayerLabels \cup ShapeLabels

\* The whole life of a Viewer: every operation, the host's frames and resize
\* events, the loader's outcomes, and a user who operates the layer select.
Next ==
    \/ \E el \in Elements \cup {Undefined} : Initialize(el)
    \/ Destroy
    \/ \E f \in Files : Load(f)
    \/ \E i \in 1..MaxLoads, c \in ColorTypes : LoadResolve(i, c)
    \/ \E i \in 1..MaxLoads, err \in LoadErrors : LoadReject(i, err)
    \/ \E h \in rafPending, t \in 1..MaxTime : Frame(h, t)
    \/ WindowResize
    \/ \E e \in 1..MaxElems, v \in LayerLabels : UIEvent(e, "layers", v)

Spec == Init /\ [][Next]_vars

\* The controls: a Viewer that is initialized and loads point clouds, and a
\* user who operates all four controls with every value (after destroy the
\* target in the document is a clone without listeners, so no handler runs).
NextUI ==
    \/ \E el \in Elements \cup {Undefined} : Initialize(el)
    \/ \E f \in Files : Load(f)
    \/ \E i \in 1..MaxLoads, c \in ColorTypes : LoadResolve(i, c)
    \/ \E e \in 1..MaxElems, c \in Controls, v \in AllValues : UIEvent(e, c, v)

SpecUI == Init /\ [][NextUI]_vars

\* ================================================================ claims
programVars == <<viewerVars, hostVars, loads>>

\* C1: initialize on a Viewer whose target is already set changes nothing:
\* the render surface, the listeners on the window and on the controls, the
\* pending frame callbacks and every field of the Viewer stay as they were,
\* and the call returns, however often it is repeated.
C1_ReinitializeChangesNothing ==
    [][(op'.name = "initialize" /\ targetEl # Undefined)
          => (UNCHANGED programVars /\ op'.outcome = "returned")]_vars

C1_Witness ==
    /\ op.name = "initialize" /\ op.line = 68
    /\ targetEl # Undefined /\ canvasParent = targetEl
    /\ rafPending # {} /\ "resize" \in winListeners

\* C2: initialize with an absent target leaves the target unset and every
\* other part of the state unchanged, and returns.
C2_AbsentTargetChangesNothing ==
    [][(op'.name = "initialize" /\ Initialize(Undefined))
          => (UNCHANGED programVars /\ op'.outcome = "returned" /\ op'.line = 68)]_vars

C2_Witness ==
    /\ op.name = "initialize" /\ op.line = 68
    /\ targetEl = Undefined /\ ~destroyed
    /\ canvasParent = Undefined /\ winListeners = {} /\ rafPending = {}

\* C3: the target element is assigned at most once in the life of a Viewer.
C3_TargetAssignedAtMostOnce ==
    [][(targetEl = Undefined /\ targetEl' # Undefined) => targetAssignments = 0]_vars

\* C4 as claimed: when a load succeeds the handle's colour mode is RGB and
\* the list has exactly one more entry than when load was called.
C4_OneMoreThanAtCall ==
    [][\A i \in 1..MaxLoads, c \in ColorTypes :
          (op'.name = "loadResolved" /\ LoadResolve(i, c))
             => /\ material'[i].pointColorType = "RGB"
                /\ Len(pointClouds') = loads[i].lenAtCall + 1]_vars

\* C4 as amended: when a load succeeds the handle's colour mode is RGB,
\* whatever the loader gave it and whatever layer was selected, and the list
\* is the list as it was when the continuation started with the handle
\* appended (one more entry than just before the continuation, not than at
\* the call).
C4_OneMoreThanBeforeContinuation ==
    [][\A i \in 1..MaxLoads, c \in ColorTypes :
          (op'.name = "loadResolved" /\ LoadResolve(i, c))
             => /\ material'[i].pointColorType = "RGB"
                /\ Len(pointClouds') = Len(pointClouds) + 1
                /\ pointClouds' = pointClouds \o <<i>>]_vars

C4_Witness ==
    /\ op.name = "loadResolved"
    /\ \E i \in 1..MaxLoads :
          /\ loads[i].settled = "resolved"
          /\ pointClouds # <<>> /\ pointClouds[Len(pointClouds)] = i
          /\ Len(pointClouds) # loads[i].lenAtCall + 1
          /\ material[i].pointColorType = "RGB"
          /\ \E j \in 1..MaxLoads : InList(j) /\ material[j].pointColorType = "RGB_HEIGHT"

\* C5: the promise load returned resolves with the handle that was loaded.
C5_ResolvesWithHandle ==
    \A i \in 1..MaxLoads : loads[i].settled = "resolved" => loads[i].result = i

\* C6: when the loader rejects, the list and the scene are unchanged, the
\* promise load returned is rejected with the loader's error, and the loader
\* is not called again for that load.
C6_RejectionPropagates ==
    [][\A i \in 1..MaxLoads, err \in LoadErrors :
          (op'.name = "loadRejected" /\ LoadReject(i, err))
             => /\ pointClouds' = pointClouds /\ scene' = scene /\ material' = material
                /\ loads'[i].status = "settled"
                /\ loads'[i].settled = "rejected" /\ loads'[i].error = err
                /\ loads'[i].loaderCalls = 1
                /\ \A j \in 1..MaxLoads : j # i => loads'[j] = loads[j]]_vars

C6_Witness ==
    /\ op.name = "loadRejected"
    /\ \E i \in 1..MaxLoads :
          /\ loads[i].settled = "rejected" /\ loads[i].error \in LoadErrors
          /\ ~InList(i) /\ i \notin scene

\* C7: once destroy has run no frame callback is pending.
C7_NoFrameAfterDestroy ==
    (op.name = "destroy" /\ op.outcome = "returned") => rafPending = {}

\* C8: the first invocation of loop calls neither update nor render; every
\* later one calls update with the time elapsed since the one before.
C8_LoopDelta ==
    op.name = "loop"
       => IF op.prev = NoTime
          THEN ~Has(op.calls, "update") /\ ~Has(op.calls, "render")
          ELSE Has(op.calls, "update") /\ op.dt = now - op.prev

\* C9: once destroy has returned, a resize event of the window does not run
\* the Viewer's resize handler and does not throw.
C9_ResizeAfterDestroy ==
    [][(destroyed /\ op'.name = "windowResize")
          => (op'.outcome = "ignored" /\ sizedFor' = sizedFor)]_vars

C9_Witness ==
    /\ destroyed /\ sizedFor # Undefined
    /\ op.name = "windowResize" /\ op.outcome = "ignored"

\* C10: the opacity and size handlers apply the number 0.5 to every point
\* cloud of the list on the input "0.5", and change nothing on "" or "abc".
C10_NumericHandlers ==
    [][\A e \in 1..MaxElems, c \in {"opacity", "size"}, v \in NumberInputs :
          (op'.name = "uiEvent" /\ UIEvent(e, c, v) /\ HandlersOn(e, c) # <<>>)
             => IF v = "0.5"
                THEN \A h \in 1..MaxLoads :
                        InList(h) => (IF c = "opacity" THEN material'[h].opacity
                                      ELSE material'[h].size) = Num(5, 1)
                ELSE material' = material]_vars

\* C11: the shape handler sets the shape of every point cloud of the list to
\* the variant of a recognised label ("Square", "Circle", "Paraboloid") and
\* changes nothing else; on any other label it changes nothing, and it never
\* throws.
C11_ShapeHandler ==
    [][\A e \in 1..MaxElems, v \in ShapeLabels :
          (op'.name = "uiEvent" /\ UIEvent(e, "shape", v)
              /\ HandlersOn(e, "shape") = <<"configPointsShape">>)
             => /\ op'.outcome = "returned"
                /\ UNCHANGED <<targetEl, orbitControls, pointClouds, prevTime,
                               reqAnimationFrameHandle, scene, sizedFor, hostVars, loads>>
                /\ \A h \in 1..MaxLoads :
                      material'[h] =
                         IF ~InList(h) THEN material[h]
                         ELSE CASE v = "Square"     -> [material[h] EXCEPT !.shape = "SQUARE"]
                                [] v = "Circle"     -> [material[h] EXCEPT !.shape = "CIRCLE"]
                                [] v = "Paraboloid" -> [material[h] EXCEPT !.shape = "PARABOLOID"]
                                [] OTHER            -> material[h]]_vars

C11_Witness ==
    /\ op.name = "uiEvent" /\ op.calls = <<"configPointsShape">>
    /\ Len(pointClouds) = 2
    /\ \A h \in 1..MaxLoads : InList(h) => material[h].shape = "CIRCLE"
    /\ \E h \in 1..MaxLoads : InList(h) /\ material[h].opacity = Str("0.5")

\* C12: the layer handler sets the colour mode of every point cloud of the
\* list to RGB on label "1" and to RGB_HEIGHT on label "2", and changes
\* nothing on any other label.
C12_LayerHandler ==
    [][\A e \in 1..MaxElems, v \in LayerLabels :
          (op'.name = "uiEvent" /\ UIEvent(e, "layers", v)
              /\ HandlersOn(e, "layers") = <<"changeLayer">>)
             => /\ op'.outcome = "returned"
                /\ \A h \in 1..MaxLoads :
                      material'[h] =
                         IF ~InList(h) THEN material[h]
                         ELSE CASE v = "1"  -> [material[h] EXCEPT !.pointColorType = "RGB"]
                                [] v = "2"  -> [material[h] EXCEPT !.pointColorType = "RGB_HEIGHT"]
                                [] OTHER    -> material[h]]_vars

C12_Witness ==
    /\ op.name = "uiEvent" /\ op.calls = <<"changeLayer">>
    /\ Len(pointClouds) = 2
    /\ \A h \in 1..MaxLoads : InList(h) => material[h].pointColorType = "RGB_HEIGHT"

Resolved == {i \in 1..MaxLoads : loads[i].settled = "resolved"}

\* C13: load does not de-duplicate: every load that succeeded put a handle
\* of its own into the scene and, while destroy has not cleared it, into the
\* list, also when another load had the same file name and base URL; two
\* such loads give two children of the scene and two entries of the list.
C13_NoDeduplication ==
    /\ Cardinality(scene) = Cardinality(Resolved)
    /\ \A i \in Resolved : i \in scene
    /\ ~destroyed => /\ Len(pointClouds) = Cardinality(Resolved)
                     /\ \A i \in Resolved : InList(i)

C13_Witness ==
    /\ ~destroyed
    /\ loads[1].file = loads[2].file
    /\ Resolved = {1, 2} /\ scene = {1, 2}
    /\ pointClouds = <<2, 1>>

\* C14: destroy does not cancel a load in flight, and a load that resolves
\* after destroy still adds its handle to the scene and appends it to the
\* list, which is then not empty.
C14_LoadOutlivesDestroy ==
    [][/\ (op'.name = "destroy" => loads' = loads)
       /\ \A i \in 1..MaxLoads :
             (destroyed /\ op'.name = "loadResolved"
                 /\ loads[i].status = "pending" /\ loads'[i].status = "settled")
                => (i \in scene' /\ pointClouds' = pointClouds \o <<i>>
                      /\ pointClouds' # <<>>)]_vars

C14_Witness ==
    /\ destroyed /\ op.name = "loadResolved"
    /\ loads[2].lenAtCall = 1 /\ loads[2].settled = "resolved"
    /\ pointClouds = <<2>> /\ scene = {1, 2}

\* C15: every invocation of loop first schedules the next frame callback,
\* and every invocation after the first then updates the controls, updates
\* the point clouds and renders, in that order.
C15_LoopOrder ==
    op.name = "loop"
       => /\ Head(op.calls) = "requestAnimationFrame"
          /\ op.prev # NoTime
                => \E i, j, k \in 2..Len(op.calls) :
                      /\ i < j /\ j < k
                      /\ op.calls[i] = "orbitControls.update"
                      /\ op.calls[j] = "potree.updatePointClouds"
                      /\ op.calls[k] = "renderer.render"

C17_NotReinitializable ==
    [][(destroyed /\ op'.name = "initialize")
          => /\ listeners' = listeners /\ winListeners' = winListeners
             /\ rafPending' = rafPending /\ rafNext' = rafNext
             /\ sizedFor' = sizedFor
             /\ orbitControls' = "undefined"
             /\ \/ op'.outcome = "threw" /\ op'.line = 74
                \/ op'.outcome = "returned" /\ op'.line = 68 /\ targetEl' = targetEl]_vars

C17_Witness ==
    /\ destroyed /\ op.name = "initialize"
    /\ op.outcome = "threw" /\ op.line = 74
    /\ targetEl # Undefined /\ dom[targetEl].hasParent
    /\ listeners[targetEl] = {} /\ winListeners = {}

\* C18: at most one frame callback of the Viewer is pending with the host.
C18_OneFrameCallback == Cardinality(rafPending) <= 1

C18_Witness ==
    /\ op.name = "loop" /\ rafNext > 2
    /\ rafPending = {reqAnimationFrameHandle}
    /\ targetAssignments = 2

\* C19: every handle of the list is a child of the scene.
C19_ListWithinScene ==
    \A h \in 1..MaxLoads : InList(h) => h \in scene

C19_Witness ==
    /\ op.name = "loadResolved"
    /\ pointClouds # <<>> /\ Cardinality(scene) > Len(pointClouds)

\* C20: destroy on a Viewer without a target throws before it changes
\* anything: the list, the camera controls, the stored frame handle, the
\* pending frame callbacks and the rest of the state are unchanged.
C20_DestroyWithoutTarget ==
    [][(targetEl = Undefined /\ op'.name = "destroy")
          => (op'.outcome = "threw" /\ op'.line = 106 /\ UNCHANGED programVars)]_vars

C20_Witness ==
    /\ op.name = "destroy" /\ op.outcome = "threw" /\ op.line = 106
    /\ targetEl = Undefined
    /\ pointClouds # <<>> /\ rafPending # {}
====
